---- MODULE Spec2Model ----
(***************************************************************************)
(* A model of the GDB Remote Serial Protocol decoder of                    *)
(* src/gdb_client/parser.rs: the primitive hex lexers, the packet framing  *)
(* (packet_body), the body expansion (expand_body) and the thread-id and   *)
(* stop-reply parsers, with the streaming nom combinators they are built   *)
(* from.  Every parser is a pure function of its input slice; a state of   *)
(* the model is one call: the input handed to the parser, the build        *)
(* profile (whether integer overflow is checked) and the call's outcome.   *)
(***************************************************************************)
EXTENDS Integers, Sequences, FiniteSets, TLC

VARIABLES
    input,            \* the byte slice handed to the parser
    overflow_checks,  \* TRUE: debug profile (overflow panics); FALSE: release (wraps)
    result            \* Pending before the call, then the call's outcome

vars == <<input, overflow_checks, result>>

----------------------------------------------------------------------------
(* Bytes.  A byte is an integer 0..255; Bytes(<<"a","b">>) is b"ab".       *)

Byte(c) ==
    CASE c = "$" -> 36  [] c = "#" -> 35  [] c = "*" -> 42  [] c = "}" -> 125
      [] c = "!" -> 33  [] c = "." -> 46  [] c = ";" -> 59  [] c = ":" -> 58
      [] c = "_" -> 95  [] c = "," -> 44
      [] c = "0" -> 48  [] c = "1" -> 49  [] c = "2" -> 50  [] c = "4" -> 52
      [] c = "5" -> 53  [] c = "7" -> 55  [] c = "9" -> 57
      [] c = "A" -> 65  [] c = "E" -> 69  [] c = "F" -> 70  [] c = "G" -> 71
      [] c = "S" -> 83  [] c = "T" -> 84  [] c = "X" -> 88
      [] c = "a" -> 97  [] c = "d" -> 100 [] c = "e" -> 101 [] c = "f" -> 102
      [] c = "g" -> 103 [] c = "h" -> 104 [] c = "o" -> 111 [] c = "p" -> 112
      [] c = "r" -> 114 [] c = "t" -> 116 [] c = "x" -> 120 [] c = "z" -> 122

Bytes(chars) == [k \in DOMAIN chars |-> Byte(chars[k])]

\* n copies of byte b.
Rep(n, b) == [k \in 1..n |-> b]

\* s without its first n elements (the slice &s[n..]).
Drop(s, n) == SubSeq(s, n + 1, Len(s))

\* The first n elements of s (the slice &s[..n]).
Take(s, n) == SubSeq(s, 1, n)

None == <<>>
Some(v) == <<v>>

----------------------------------------------------------------------------
(* Outcomes of a parser: nom's IResult, plus a panic of the thread.        *)

Ok(rest, value) == [kind |-> "Ok", rest |-> rest, value |-> value]
Incomplete == [kind |-> "Incomplete"]
Panic == [kind |-> "Panic"]
Pending == [kind |-> "Pending"]

\* Error::new_inner wrapped by From<Error> for nom::Err<Error>: a recoverable
\* nom::Err::Error carrying a copy of the input, the kind, no context, no causes.
Error_new(i, kind) ==
    [kind |-> "Error",
     err  |-> [input |-> i, kind |-> kind, context |-> None, causes |-> <<>>]]

Nom(k) == [tag |-> "Nom", kind |-> k]

\* ParseError::from_error_kind
from_error_kind(i, k) == Error_new(i, Nom(k))

\* ParseError::append: the nom kind is pushed on the causes of the error.
append(k, r) == [r EXCEPT !.err.causes = Append(@, Nom(k))]

\* ContextError::add_context
add_context(ctx, r) == [r EXCEPT !.err.context = Some(ctx)]

----------------------------------------------------------------------------
(* nom's streaming combinators, as the parser uses them.                   *)

\* bytes::streaming::tag: a mismatch in the common prefix is an error, a
\* proper prefix of the tag is Incomplete.
tag(t, i) ==
    LET n == IF Len(i) < Len(t) THEN Len(i) ELSE Len(t) IN
    IF \E k \in 1..n : i[k] # t[k] THEN from_error_kind(i, "Tag")
    ELSE IF Len(i) >= Len(t) THEN Ok(Drop(i, Len(t)), Take(i, Len(t)))
    ELSE Incomplete

\* bytes::streaming::take
take(n, i) ==
    IF Len(i) < n THEN Incomplete ELSE Ok(Drop(i, n), Take(i, n))

\* bytes::streaming::take_until for a one-byte pattern: up to the first
\* occurrence, which stays in the remainder; no occurrence is Incomplete.
take_until(b, i) ==
    IF \E k \in 1..Len(i) : i[k] = b
    THEN LET k == CHOOSE k \in 1..Len(i) : i[k] = b /\ \A j \in 1..(k - 1) : i[j] # b
         IN  Ok(Drop(i, k - 1), Take(i, k - 1))
    ELSE Incomplete

----------------------------------------------------------------------------
(* Primitive lexers.                                                       *)

\* The ? operator: a result that is not Ok is returned as it is, an Ok result
\* is handed on.
and_then(r, K(_)) == IF r.kind = "Ok" THEN K(r) ELSE r

HEX_RADIX == 16

\* char::to_digit(radix) on a byte cast to char.
to_digit(c, radix) ==
    LET v == IF c \in 48..57 THEN c - 48
             ELSE IF c \in 97..122 THEN c - 97 + 10
             ELSE IF c \in 65..90 THEN c - 65 + 10
             ELSE radix
    IN IF v < radix THEN Some(v) ELSE None

\* The map_or_else of hex_digit: no digit is ExpectedHexDigit(char), with the
\* input behind the byte; a digit is returned with that remainder.
map_or_else(d, c, rest) ==
    IF d = None THEN Error_new(rest, [tag |-> "ExpectedHexDigit", char |-> c])
    ELSE Ok(rest, d[1])

\* hex_digit with a non-streaming take: the end of the buffer is an error.
hex_digit_complete(i) ==
    IF Len(i) < 1 THEN from_error_kind(i, "Eof")
    ELSE map_or_else(to_digit(i[1], HEX_RADIX), i[1], Drop(i, 1))

\* One byte, taken in streaming mode, and its value as a hex digit.
hex_digit(i) ==
    and_then(take(1, i),
             LAMBDA t : map_or_else(to_digit(t.value[1], HEX_RADIX), t.value[1], t.rest))

\* The two digits combined in base ten.
hex_pair_decimal(d1, d2) == d1 * 10 + d2

\* (d1 << 4) + d2 in u8; d1, d2 <= 15, so it never overflows.
hex_pair(d1, d2) == d1 * 16 + d2

two_digit_hex(i) ==
    and_then(hex_digit(i), LAMBDA r1 :
    and_then(hex_digit(r1.rest), LAMBDA r2 :
    Ok(r2.rest, hex_pair(r1.value, r2.value))))

checksum(i) == two_digit_hex(i)

\* multi::many1(hex_digit): the digits up to the first recoverable error; an
\* Incomplete of hex_digit, at the first or at a later digit, is returned as
\* it is.  many1_first and many1_next take the outcome r of hex_digit at the
\* first digit and at a later one (i: the input it ran on, acc: the digits).
RECURSIVE many1_loop(_, _)
RECURSIVE many1_next(_, _, _)
many1_next(r, i, acc) ==
    IF r.kind = "Error" THEN Ok(i, acc)
    ELSE IF r.kind # "Ok" THEN r
    ELSE many1_loop(r.rest, Append(acc, r.value))

many1_loop(i, acc) == many1_next(hex_digit(i), i, acc)

many1_first(r) ==
    IF r.kind = "Error" THEN append("Many1", r)
    ELSE IF r.kind # "Ok" THEN r
    ELSE many1_loop(r.rest, <<r.value>>)

many1_hex_digit(i) == many1_first(hex_digit(i))

\* A u64 is its 16 hex digits, least significant first.
U64_NIBBLES == 16

ZERO_U64 == Rep(U64_NIBBLES, 0)

\* a + b on u64: <<the sum mod 2^64, the carry out>>.
RECURSIVE add_u64_from(_, _, _, _)
add_u64_from(a, b, k, c) ==
    IF k > U64_NIBBLES THEN <<<<>>, c>>
    ELSE LET s == a[k] + b[k] + c
             r == add_u64_from(a, b, k + 1, s \div 16)
         IN  <<(<<s % 16>>) \o r[1], r[2]>>

add_u64(a, b) == add_u64_from(a, b, 1, 0)

\* u64::from(digit) << shift for a digit below 16 and a shift 4*n < 64.
shl_u64(digit, shift) ==
    [k \in 1..U64_NIBBLES |-> IF k = (shift \div 4) + 1 THEN digit ELSE 0]

\* num += term: an overflowing sum panics under overflow checks and wraps
\* without them.  None stands for the panic.
checked_sum(sum, oc) == IF sum[2] # 0 /\ oc THEN None ELSE Some(sum[1])

\* The loop of hex_number over the reversed digits: num += digit << (4 * idx).
\* A shift of 64 or more panics under overflow checks and is taken modulo 64
\* without them.
RECURSIVE hex_number_loop(_, _, _, _)
RECURSIVE hex_number_next(_, _, _, _)
hex_number_next(digits, idx, num, oc) ==
    IF num = None THEN None ELSE hex_number_loop(digits, idx, num[1], oc)

hex_number_loop(digits, idx, num, oc) ==
    IF idx >= Len(digits) THEN Some(num)
    ELSE IF 4 * idx >= 4 * U64_NIBBLES /\ oc THEN None
    ELSE hex_number_next(
             digits, idx + 1,
             checked_sum(add_u64(num, shl_u64(digits[idx + 1], (4 * idx) % (4 * U64_NIBBLES))),
                         oc),
             oc)

Reverse(s) == [k \in 1..Len(s) |-> s[Len(s) + 1 - k]]

number_or_panic(num, rest) == IF num = None THEN Panic ELSE Ok(rest, num[1])

hex_number(i, oc) ==
    and_then(many1_hex_digit(i), LAMBDA r :
    number_or_panic(hex_number_loop(Reverse(r.value), 0, ZERO_U64, oc), r.rest))

----------------------------------------------------------------------------
(* Thread identifiers.                                                     *)

MultiProcess(pid, tid) == [tag |-> "MultiProcess", pid |-> pid, tid |-> tid]

SingleProcess(tid) == [tag |-> "SingleProcess", tid |-> tid]

\* preceded(tag(b"p"), tuple((hex_number, tag(b"."), hex_number))): each part
\* runs on what the part before left, and the first failure is returned as is.
multiprocess_thread_id(i, oc) ==
    and_then(tag(Bytes(<<"p">>), i), LAMBDA r0 :
    and_then(hex_number(r0.rest, oc), LAMBDA r1 :
    and_then(tag(Bytes(<<".">>), r1.rest), LAMBDA r2 :
    and_then(hex_number(r2.rest, oc), LAMBDA r3 :
    Ok(r3.rest, MultiProcess(r1.value, r3.value))))))

singleprocess_thread_id(i, oc) ==
    and_then(hex_number(i, oc), LAMBDA r : Ok(r.rest, SingleProcess(r.value)))

\* branch::alt of the two forms: the second runs, on the same input, only when
\* the first ends in a recoverable error (alt_first, r1: the first's outcome);
\* when both do, the second's error is kept (ParseError::or) with
\* ErrorKind::Alt appended (alt_second, r2: the second's outcome).
alt_second(r2) == IF r2.kind = "Error" THEN append("Alt", r2) ELSE r2

alt_first(r1, i, oc) ==
    IF r1.kind # "Error" THEN r1 ELSE alt_second(singleprocess_thread_id(i, oc))

alt_thread_id(i, oc) == alt_first(multiprocess_thread_id(i, oc), i, oc)

\* error::context(ctx, ...) on the outcome r of the inner parser.
context(ctx, r) == IF r.kind = "Error" THEN add_context(ctx, r) ELSE r

thread_id(i, oc) == context("thread_id", alt_thread_id(i, oc))

----------------------------------------------------------------------------
(* Stop replies.                                                           *)

Continuation(b) == b \in 128..191

\* The length of the UTF-8 sequence that starts at s[k], or 0 when none does
\* (core::str::from_utf8's validation: no overlong forms, no surrogates,
\* nothing above U+10FFFF).
utf8_sequence_len(s, k) ==
    LET b0 == s[k]
        has(n) == k + n - 1 <= Len(s) /\ \A j \in (k + 2)..(k + n - 1) : Continuation(s[j])
        b1 == s[k + 1]
    IN  IF b0 <= 127 THEN 1
        ELSE IF b0 \in 194..223 THEN (IF has(2) /\ Continuation(b1) THEN 2 ELSE 0)
        ELSE IF b0 = 224 THEN (IF has(3) /\ b1 \in 160..191 THEN 3 ELSE 0)
        ELSE IF b0 \in (225..236) \cup {238, 239} THEN (IF has(3) /\ Continuation(b1) THEN 3 ELSE 0)
        ELSE IF b0 = 237 THEN (IF has(3) /\ b1 \in 128..159 THEN 3 ELSE 0)
        ELSE IF b0 = 240 THEN (IF has(4) /\ b1 \in 144..191 THEN 4 ELSE 0)
        ELSE IF b0 \in 241..243 THEN (IF has(4) /\ Continuation(b1) THEN 4 ELSE 0)
        ELSE IF b0 = 244 THEN (IF has(4) /\ b1 \in 128..143 THEN 4 ELSE 0)
        ELSE 0

\* Utf8Error::valid_up_to: how many leading bytes of s are valid UTF-8.
RECURSIVE valid_up_to(_, _)
valid_up_to(s, k) ==
    IF k > Len(s) THEN Len(s)
    ELSE LET n == utf8_sequence_len(s, k) IN
         IF n = 0 THEN k - 1 ELSE valid_up_to(s, k + n)

\* std::str::from_utf8(reason).is_ok()
from_utf8_ok(s) == valid_up_to(s, 1) = Len(s)

HaltReason(signal_num, thread, reason) ==
    [signal_num |-> signal_num, thread |-> thread, reason |-> reason]

\* The end of halt_reason without the UTF-8 validation.
halt_reason_tail_unvalidated(reason, signal_num, thread) ==
    Ok(<<>>, HaltReason(signal_num, thread, IF reason = <<>> THEN None ELSE Some(reason)))

\* The end of halt_reason: what follows the ';' is the reason.
halt_reason_tail(reason, signal_num, thread) ==
    IF reason = <<>> THEN Ok(<<>>, HaltReason(signal_num, thread, None))
    ELSE IF ~from_utf8_ok(reason)
    THEN Error_new(reason, [tag |-> "Utf8", valid_up_to |-> valid_up_to(reason, 1)])
    ELSE Ok(<<>>, HaltReason(signal_num, thread, Some(reason)))

halt_reason(i, oc) ==
    and_then(tag(Bytes(<<"T">>), i), LAMBDA r1 :
    and_then(two_digit_hex(r1.rest), LAMBDA r2 :
    and_then(tag(Bytes(<<"t", "h", "r", "e", "a", "d", ":">>), r2.rest), LAMBDA r3 :
    and_then(thread_id(r3.rest, oc), LAMBDA r4 :
    and_then(tag(Bytes(<<";">>), r4.rest), LAMBDA r5 :
    halt_reason_tail(r5.rest, r2.value, r4.value))))))

----------------------------------------------------------------------------
(* Body expansion.                                                         *)

ESCAPE_INDICATOR == 125

RUN_LENGTH_INDICATOR == 42

\* The bias of a run-length count byte (count - 28).
RUN_LENGTH_BIAS == 28

ExpandOk(out) == [kind |-> "Ok", value |-> out]
ExpandErr(e) == [kind |-> "Err", err |-> e]

\* b ^ 0x20 on a byte.
xor_0x20(b) == IF (b \div 32) % 2 = 1 THEN b - 32 ELSE b + 32

\* The while loop of expand_body; idx counts from 0 as in the source.  The
\* subtractions count - 28, idx - 1 and count - 1 are unsigned: below zero they
\* panic under overflow checks and wrap without them (idx - 1 wraps to
\* usize::MAX, where body.get finds nothing).
RECURSIVE expand_loop(_, _, _, _)
expand_loop(body, idx, out, oc) ==
    IF idx >= Len(body) THEN ExpandOk(out)
    ELSE LET byte == body[idx + 1] IN
         IF byte = ESCAPE_INDICATOR
         THEN IF idx + 1 >= Len(body) THEN ExpandErr("EscapedByte")
              ELSE expand_loop(body, idx + 2, Append(out, xor_0x20(body[idx + 2])), oc)
         ELSE IF byte = RUN_LENGTH_INDICATOR
         THEN IF idx + 1 >= Len(body) THEN ExpandErr("RunLengthCount")
              ELSE IF body[idx + 2] < RUN_LENGTH_BIAS /\ oc THEN Panic
              ELSE LET count == (body[idx + 2] - RUN_LENGTH_BIAS) % 256 IN
                   IF idx = 0 THEN (IF oc THEN Panic ELSE ExpandErr("RunLengthByte"))
                   ELSE LET encoded == body[idx] IN
                        IF count = 0 /\ oc THEN Panic
                        ELSE expand_loop(body, idx + 2,
                                         out \o Rep((count - 1) % 256, encoded), oc)
         ELSE expand_loop(body, idx + 1, Append(out, byte), oc)

expand_body(body, oc) == expand_loop(body, 0, <<>>, oc)

----------------------------------------------------------------------------
(* Framing and integrity.                                                  *)

PACKET_START == 36

CHECKSUM_START == 35

RECURSIVE sum_bytes(_)
sum_bytes(s) == IF s = <<>> THEN 0 ELSE s[1] + sum_bytes(Drop(s, 1))

\* common::compute_checksum: the sum of the body's bytes modulo 256.
compute_checksum(body) == sum_bytes(body) % 256

\* The comparison of packet_body left out: every checksum is accepted.
checksum_unchecked(expected, actual) == TRUE

\* expected != actual, negated.
checksum_matches(expected, actual) == expected = actual

\* The end of the 'E' branch, r the outcome of two_digit_hex on b, the body
\* behind the 'E': the ? first, then assert!(rest.is_empty()), then App(code).
error_code(r, b) ==
    IF r.kind # "Ok" THEN r
    ELSE IF r.rest # <<>> THEN Panic
    ELSE Error_new(b, [tag |-> "App", code |-> r.value])

\* The branch of packet_body for a body that starts with 'E'.
error_reply(body) == error_code(two_digit_hex(Drop(body, 1)), Drop(body, 1))

\* The end of packet_body, e the outcome of expand_body on the body.
expanded(e, body, rest) ==
    IF e.kind = "Panic" THEN Panic
    ELSE IF e.kind = "Err" THEN Error_new(body, [tag |-> "ExpandBody", err |-> e.err])
    ELSE Ok(rest, e.value)

\* packet_body from the checksum comparison on: rest is the input behind the
\* two checksum digits.
verified_body(body, expected, actual, rest, oc) ==
    IF ~checksum_matches(expected, actual)
    THEN Error_new(body, [tag |-> "FailedChecksum", expected |-> expected, actual |-> actual])
    ELSE IF Len(body) >= 1 /\ body[1] = Byte("E") THEN error_reply(body)
    ELSE expanded(expand_body(body, oc), body, rest)

packet_body(i, oc) ==
    and_then(tag(<<PACKET_START>>, i), LAMBDA r1 :
    and_then(take_until(CHECKSUM_START, r1.rest), LAMBDA r2 :
    and_then(checksum(Drop(r2.rest, 1)), LAMBDA r3 :
    verified_body(r2.value, r3.value, compute_checksum(r2.value), r3.rest, oc))))

----------------------------------------------------------------------------
(* The calls of hex_number.                                                *)

MaxHexLen == 4

HexAlphabet == {Byte("0"), Byte("1"), Byte("a"), Byte("F"), Byte("g"), Byte("_")}

\* A run before the input that fills, or nearly fills, a u64.
HexPads == {<<>>, Rep(U64_NIBBLES, Byte("0")), Rep(U64_NIBBLES - 1, Byte("f"))}

\* Short inputs, alone and behind such a run.
InitHex ==
    /\ \E pad \in HexPads, k \in 0..MaxHexLen :
          \E s \in [1..k -> HexAlphabet] : input = pad \o s
    /\ overflow_checks \in BOOLEAN
    /\ result = Pending

CallHexNumber ==
    /\ result = Pending
    /\ result' = hex_number(input, overflow_checks)
    /\ UNCHANGED <<input, overflow_checks>>

NextHex == CallHexNumber

SpecHex == InitHex /\ [][NextHex]_vars

----------------------------------------------------------------------------
(* The calls of expand_body.                                               *)

MaxExpandLen == 4

\* A literal, the two indicators, a count of 5, an escaped '#', and the count
\* bytes below, at and just above the bias.
ExpandAlphabet == {Byte("X"), ESCAPE_INDICATOR, RUN_LENGTH_INDICATOR, Byte("!"), 3, 28, 29}

InitExpand ==
    /\ \E k \in 0..MaxExpandLen : \E s \in [1..k -> ExpandAlphabet] : input = s \o <<>>
    /\ overflow_checks \in BOOLEAN
    /\ result = Pending

CallExpandBody ==
    /\ result = Pending
    /\ result' = expand_body(input, overflow_checks)
    /\ UNCHANGED <<input, overflow_checks>>

NextExpand == CallExpandBody

SpecExpand == InitExpand /\ [][NextExpand]_vars

----------------------------------------------------------------------------
(* The calls of packet_body.                                               *)

MaxBodyLen == 4

MaxRawLen == 4

\* The digits "0123456789abcdef" and "0123456789ABCDEF".
LowerHex == [k \in 1..16 |-> IF k <= 10 THEN 47 + k ELSE 86 + k]

UpperHex == [k \in 1..16 |-> IF k <= 10 THEN 47 + k ELSE 54 + k]

\* The two hex digits of a byte value, as a sender writes them.
Hex2(table, v) == <<table[(v \div 16) + 1], table[(v % 16) + 1]>>

BodyAlphabet ==
    {Byte("E"), Byte("0"), Byte("X"), CHECKSUM_START, ESCAPE_INDICATOR,
     RUN_LENGTH_INDICATOR, Byte("!")}

Trailers == {<<>>, <<PACKET_START>>, <<Byte("0"), CHECKSUM_START>>}

\* The checksums a frame may carry for body b: the right one, in either case,
\* and one that is off by one.
ChecksumsFor(b) ==
    {Hex2(LowerHex, sum_bytes(b) % 256), Hex2(UpperHex, sum_bytes(b) % 256),
     Hex2(LowerHex, (sum_bytes(b) + 1) % 256)}

Frame(b, cs, t) == <<PACKET_START>> \o b \o <<CHECKSUM_START>> \o cs \o t

RawAlphabet == {PACKET_START, CHECKSUM_START, Byte("0"), Byte("E"), Byte("g")}

\* The frames '$' body '#' checksum trailer and every truncation of one, and
\* short arbitrary inputs.
InitPacket ==
    /\ \/ \E k \in 0..MaxBodyLen : \E b \in [1..k -> BodyAlphabet] :
             \E cs \in ChecksumsFor(b), t \in Trailers :
                \E n \in (k + 1)..Len(Frame(b, cs, t)) : input = Take(Frame(b, cs, t), n)
       \/ \E k \in 0..MaxRawLen : \E s \in [1..k -> RawAlphabet] : input = s \o <<>>
    /\ overflow_checks \in BOOLEAN
    /\ result = Pending

CallPacketBody ==
    /\ result = Pending
    /\ result' = packet_body(input, overflow_checks)
    /\ UNCHANGED <<input, overflow_checks>>

NextPacket == CallPacketBody

SpecPacket == InitPacket /\ [][NextPacket]_vars

----------------------------------------------------------------------------
(* The calls of thread_id.                                                 *)

MaxThreadLen == 5

ThreadAlphabet == {Byte("p"), Byte("0"), Byte("a"), Byte("."), Byte(";")}

\* Nothing, a run of zeros that fills a u64, and the same behind a 'p'.
ThreadPads ==
    {<<>>, Rep(U64_NIBBLES, Byte("0")), Bytes(<<"p">>) \o Rep(U64_NIBBLES, Byte("0"))}

InitThread ==
    /\ \E pad \in ThreadPads, k \in 0..MaxThreadLen :
          \E s \in [1..k -> ThreadAlphabet] : input = pad \o s
    /\ overflow_checks \in BOOLEAN
    /\ result = Pending

CallThreadId ==
    /\ result = Pending
    /\ result' = thread_id(input, overflow_checks)
    /\ UNCHANGED <<input, overflow_checks>>

NextThread == CallThreadId

SpecThread == InitThread /\ [][NextThread]_vars

----------------------------------------------------------------------------
(* The calls of halt_reason.                                               *)

MaxReasonLen == 3

Heads == {Bytes(<<"T">>), Bytes(<<"S">>), <<>>}

Signals == {Bytes(<<"0", "0">>), Bytes(<<"0", "a">>), Bytes(<<"F", "1">>),
            Bytes(<<"g", "0">>), Bytes(<<"0">>)}

Keywords == {Bytes(<<"t", "h", "r", "e", "a", "d", ":">>),
             Bytes(<<"t", "h", "r", "e", "a", "d", ";">>),
             Bytes(<<"t", "h", "r">>)}

ThreadFields ==
    {Bytes(<<"1", ";">>), Bytes(<<"a", "0", ";">>), Bytes(<<"p", "1", ".", "a", ";">>),
     Bytes(<<"p", "1", ";">>), Bytes(<<";">>), Bytes(<<"1">>), Bytes(<<"p", "1", ".", "a">>),
     Bytes(<<"1", ",">>), Rep(U64_NIBBLES + 1, Byte("0")) \o Bytes(<<";">>), <<>>}

\* An ASCII letter, the two bytes of U+00E9, and a byte no UTF-8 text holds.
ReasonAlphabet == {Byte("x"), 195, 169, 255}

InitHalt ==
    /\ \E h \in Heads, sig \in Signals, kw \in Keywords, t \in ThreadFields,
          k \in 0..MaxReasonLen :
          \E r \in [1..k -> ReasonAlphabet] : input = h \o sig \o kw \o t \o r
    /\ overflow_checks \in BOOLEAN
    /\ result = Pending

CallHaltReason ==
    /\ result = Pending
    /\ result' = halt_reason(input, overflow_checks)
    /\ UNCHANGED <<input, overflow_checks>>

NextHalt == CallHaltReason

SpecHalt == InitHalt /\ [][NextHalt]_vars

----------------------------------------------------------------------------
(* What the properties below are stated with: the hex digits and the value  *)
(* of a run of them, read off the wire grammar.                            *)

Called == result # Pending

IsHexByte(c) == c \in (48..57) \cup (97..102) \cup (65..70)

HexValueOf(c) == IF c <= 57 THEN c - 48 ELSE IF c >= 97 THEN c - 87 ELSE c - 55

\* The length of the maximal leading run of hex digits of s.
HexRunLen(s) ==
    CHOOSE n \in 0..Len(s) :
        /\ \A k \in 1..n : IsHexByte(s[k])
        /\ n = Len(s) \/ ~IsHexByte(s[n + 1])

\* The u64 whose big-endian base-16 digits are run, when it fits.
RunValue(run) ==
    [k \in 1..U64_NIBBLES |->
        IF k <= Len(run) THEN HexValueOf(run[Len(run) + 1 - k]) ELSE 0]

RunFits(run) == \A j \in 1..(Len(run) - U64_NIBBLES) : HexValueOf(run[j]) = 0

----------------------------------------------------------------------------
(* hex_number                                                              *)

\* C6: for an input made of n >= 1 hex digits followed by a non-hex byte,
\* hex_number returns the remainder starting at that byte and the number whose
\* big-endian digits are the run, for every run whose value fits in 64 bits,
\* runs of more than 16 digits with leading zeros included; an input whose
\* first byte is not a hex digit is a definite error.
C6_HexNumberValue ==
    Called =>
        LET n == HexRunLen(input) IN
        /\ (n >= 1 /\ n < Len(input) /\ RunFits(Take(input, n)))
              => result = Ok(Drop(input, n), RunValue(Take(input, n)))
        /\ (Len(input) >= 1 /\ n = 0) => result.kind = "Error"

\* C7: hex_number never takes the end of the buffer for the end of the number:
\* an input of hex digits only (the empty input included) is Incomplete, and a
\* success is returned only when a non-hex byte follows the digits, with the
\* remainder starting at that byte.
C7_EndOfBufferIsIncomplete ==
    Called =>
        LET n == HexRunLen(input) IN
        /\ n = Len(input) => result = Incomplete
        /\ result.kind = "Ok" => (n >= 1 /\ n < Len(input) /\ result.rest = Drop(input, n))

\* A run of more than 16 hex digits that ends with the buffer was reported Incomplete.
C7_Witness ==
    /\ result = Incomplete
    /\ HexRunLen(input) = Len(input)
    /\ Len(input) > U64_NIBBLES

----------------------------------------------------------------------------
(* expand_body                                                             *)

\* The expansion of a well-formed body in which a run repeats the last byte of
\* the output.
RECURSIVE RepeatLastOutput(_, _, _)
RepeatLastOutput(body, k, out) ==
    IF k > Len(body) THEN out
    ELSE IF body[k] = ESCAPE_INDICATOR
    THEN RepeatLastOutput(body, k + 2, Append(out, xor_0x20(body[k + 1])))
    ELSE IF body[k] = RUN_LENGTH_INDICATOR
    THEN RepeatLastOutput(body, k + 2, out \o Rep(body[k + 1] - 28 - 1, out[Len(out)]))
    ELSE RepeatLastOutput(body, k + 1, Append(out, body[k]))

\* Every indicator has its second byte, every run a byte before it and a count
\* byte of at least 29 (a count of at least one occurrence).
RECURSIVE WellFormedBody(_, _)
WellFormedBody(body, k) ==
    IF k > Len(body) THEN TRUE
    ELSE IF body[k] = ESCAPE_INDICATOR
    THEN k < Len(body) /\ WellFormedBody(body, k + 2)
    ELSE IF body[k] = RUN_LENGTH_INDICATOR
    THEN k > 1 /\ k < Len(body) /\ body[k + 1] >= 29 /\ WellFormedBody(body, k + 2)
    ELSE WellFormedBody(body, k + 1)

\* C3: a run-length indicator followed by count byte c makes the last byte
\* emitted so far (also when it came from an escape pair or an earlier run)
\* occur c - 28 times in total, that is c - 28 - 1 further times; every other
\* non-escape byte is emitted unchanged.
C3_RunRepeatsLastOutputByte ==
    (Called /\ WellFormedBody(input, 1))
        => result = ExpandOk(RepeatLastOutput(input, 1, <<>>))

\* The outcome the three failure modes leave to a body: the first indicator,
\* from the left, that ends the body or is a run at index 0 decides.
RECURSIVE ExpandOutcome(_, _)
ExpandOutcome(body, k) ==
    IF k > Len(body) THEN "Ok"
    ELSE IF body[k] = ESCAPE_INDICATOR
    THEN (IF k = Len(body) THEN "EscapedByte" ELSE ExpandOutcome(body, k + 2))
    ELSE IF body[k] = RUN_LENGTH_INDICATOR
    THEN (IF k = Len(body) THEN "RunLengthCount"
          ELSE IF k = 1 THEN "RunLengthByte"
          ELSE ExpandOutcome(body, k + 2))
    ELSE ExpandOutcome(body, k + 1)

\* C4: expand_body is total with exactly three failure modes: EscapedByte for
\* an escape indicator that ends the body, RunLengthCount for a run-length
\* indicator that ends the body, RunLengthByte for a run-length indicator with
\* a count byte at index 0; every other body, whatever its count bytes, gives
\* an output, and no body makes it abort.
C4_ExpandBodyTotal ==
    Called =>
        LET want == ExpandOutcome(input, 1) IN
        IF want = "Ok" THEN result.kind = "Ok" ELSE result = ExpandErr(want)

----------------------------------------------------------------------------
(* packet_body                                                             *)

HasByte(s, b) == \E k \in 1..Len(s) : s[k] = b

\* The two hex digits of v, in either case.
Hex2Digits(v) == {Hex2(LowerHex, v), Hex2(UpperHex, v)}

\* input is '$' b '#' x y r with the '#' at position k.
FramedAt(k) ==
    /\ Len(input) >= k + 2
    /\ k >= 2
    /\ input[1] = PACKET_START
    /\ input[k] = CHECKSUM_START

BodyAt(k) == SubSeq(input, 2, k - 1)

\* The position of the first '#' of the input.
FirstMark == CHOOSE k \in 1..Len(input) :
                 input[k] = CHECKSUM_START /\ ~HasByte(Take(input, k - 1), CHECKSUM_START)

\* input is a complete frame: '$' body '#' x y r, the body up to the first '#'.
CompleteFrame ==
    /\ Len(input) >= 1
    /\ input[1] = PACKET_START
    /\ HasByte(input, CHECKSUM_START)
    /\ Len(input) >= FirstMark + 2

FrameBody == BodyAt(FirstMark)

\* The frame's checksum digits are hex digits.
ChecksumIsHex == IsHexByte(input[FirstMark + 1]) /\ IsHexByte(input[FirstMark + 2])

Transmitted == 16 * HexValueOf(input[FirstMark + 1]) + HexValueOf(input[FirstMark + 2])

\* C1 as stated: for every b without 0x7D and 0x2A and every r, packet_body of
\* '$' b '#' hex2(sum b mod 256) r returns b as the body and r as the remainder.
C1_RoundTripAnyBody ==
    Called =>
        \A k \in 2..(Len(input) - 2) :
            (/\ FramedAt(k)
             /\ ~HasByte(BodyAt(k), ESCAPE_INDICATOR)
             /\ ~HasByte(BodyAt(k), RUN_LENGTH_INDICATOR)
             /\ <<input[k + 1], input[k + 2]>> \in Hex2Digits(sum_bytes(BodyAt(k)) % 256))
                => result = Ok(Drop(input, k + 2), BodyAt(k))

\* C1, amended: for every b without 0x7D, 0x2A and '#' (0x23) that does not
\* start with 'E', and every r, packet_body of '$' b '#' hex2(sum b mod 256) r
\* returns b as the body and r as the remainder.
C1_RoundTrip ==
    Called =>
        \A k \in 2..(Len(input) - 2) :
            (/\ FramedAt(k)
             /\ ~HasByte(BodyAt(k), ESCAPE_INDICATOR)
             /\ ~HasByte(BodyAt(k), RUN_LENGTH_INDICATOR)
             /\ ~HasByte(BodyAt(k), CHECKSUM_START)
             /\ (BodyAt(k) = <<>> \/ BodyAt(k)[1] # Byte("E"))
             /\ <<input[k + 1], input[k + 2]>> \in Hex2Digits(sum_bytes(BodyAt(k)) % 256))
                => result = Ok(Drop(input, k + 2), BodyAt(k))

\* A frame with a body of two bytes or more and bytes behind the checksum was
\* decoded to that body and that remainder.
C1_Witness ==
    /\ CompleteFrame
    /\ Len(FrameBody) >= 2
    /\ Len(input) > FirstMark + 2
    /\ <<input[FirstMark + 1], input[FirstMark + 2]>> \in Hex2Digits(sum_bytes(FrameBody) % 256)
    /\ result = Ok(Drop(input, FirstMark + 2), FrameBody)

\* C2: a frame '$' body '#' d1 d2 whose hex digits d1 d2 differ from the sum of
\* the body's bytes mod 256 fails with FailedChecksum{expected: the transmitted
\* value, actual: the recomputed one}, whatever the body (the bytes up to the
\* first '#') is: no ExpandBody, App or hex-digit error is reported for it.
C2_ChecksumMismatch ==
    (Called /\ CompleteFrame /\ ChecksumIsHex /\ Transmitted # sum_bytes(FrameBody) % 256)
        => /\ result.kind = "Error"
           /\ result.err.kind = [tag |-> "FailedChecksum", expected |-> Transmitted,
                                 actual |-> sum_bytes(FrameBody) % 256]

\* A checksum mismatch was reported for an 'E' body that is no error reply and
\* for a body that ends in a run-length indicator.
C2_Witness ==
    /\ CompleteFrame
    /\ Len(FrameBody) >= 2
    /\ FrameBody[1] = Byte("E")
    /\ FrameBody[Len(FrameBody)] = RUN_LENGTH_INDICATOR
    /\ result.kind = "Error"
    /\ result.err.kind.tag = "FailedChecksum"

ChecksumValid == ChecksumIsHex /\ Transmitted = sum_bytes(FrameBody) % 256

\* C5: a checksum-valid packet whose body is 'E' and exactly two hex digits
\* d1 d2 fails with App(16*d1 + d2); a checksum-valid body that starts with 'E'
\* and whose next two bytes are not both hex digits is a definite error.
C5_ErrorReply ==
    (Called /\ CompleteFrame /\ ChecksumValid /\ Len(FrameBody) >= 1
         /\ FrameBody[1] = Byte("E"))
        => LET b == FrameBody
               two == Len(b) >= 3 /\ IsHexByte(b[2]) /\ IsHexByte(b[3])
           IN  /\ (two /\ Len(b) = 3)
                     => /\ result.kind = "Error"
                        /\ result.err.kind =
                               [tag |-> "App", code |-> 16 * HexValueOf(b[2]) + HexValueOf(b[3])]
               /\ ~two => result.kind = "Error"

\* C10: packet_body is Incomplete only for a truncated frame (the input is
\* empty, or starts with '$' and holds no '#', or holds fewer than two bytes
\* after the first '#'); for an input that holds a complete frame it returns a
\* success or a definite error.
C10_IncompleteOnlyWhenTruncated ==
    Called =>
        /\ result = Incomplete
              => \/ input = <<>>
                 \/ input[1] = PACKET_START /\ ~HasByte(input, CHECKSUM_START)
                 \/ HasByte(input, CHECKSUM_START) /\ Len(input) < FirstMark + 2
        /\ CompleteFrame => result.kind \in {"Ok", "Error"}

----------------------------------------------------------------------------
(* thread_id                                                               *)

\* What alt and context make of the second branch's outcome.
SecondBranch(r) == IF r.kind = "Error" THEN add_context("thread_id", append("Alt", r)) ELSE r

\* C8: 'p' H1 '.' H2 followed by a non-hex byte gives MultiProcess{pid: the
\* value of H1, tid: the value of H2} and the remainder from that byte; H
\* followed by a non-hex byte gives SingleProcess{tid: the value of H}; and when
\* the first branch ends in a definite error the outcome is that of the second
\* branch on the whole input.
C8_ThreadIdForms ==
    Called =>
        LET n  == HexRunLen(input)
            n1 == HexRunLen(Drop(input, 1))
            n2 == HexRunLen(Drop(input, n1 + 2))
            H1 == SubSeq(input, 2, n1 + 1)
            H2 == SubSeq(input, n1 + 3, n1 + 2 + n2)
        IN  /\ (/\ Len(input) >= 1 /\ input[1] = Byte("p")
                /\ n1 >= 1 /\ Len(input) >= n1 + 2 /\ input[n1 + 2] = Byte(".")
                /\ n2 >= 1 /\ Len(input) > n1 + 2 + n2
                /\ RunFits(H1) /\ RunFits(H2))
                  => result = Ok(Drop(input, n1 + 2 + n2),
                                 MultiProcess(RunValue(H1), RunValue(H2)))
            /\ (n >= 1 /\ n < Len(input) /\ RunFits(Take(input, n)))
                  => result = Ok(Drop(input, n), SingleProcess(RunValue(Take(input, n))))
            /\ multiprocess_thread_id(input, overflow_checks).kind = "Error"
                  => result = SecondBranch(singleprocess_thread_id(input, overflow_checks))

----------------------------------------------------------------------------
(* halt_reason                                                             *)

\* The scalar value that the bytes of s encode as one UTF-8 sequence of Len(s)
\* bytes, or -1 when they encode none.
ScalarOf(s) ==
    LET tail(b) == IF Continuation(b) THEN b - 128 ELSE -1
        cont    == \A j \in 2..Len(s) : Continuation(s[j])
    IN  IF Len(s) = 1 THEN (IF s[1] <= 127 THEN s[1] ELSE -1)
        ELSE IF ~cont THEN -1
        ELSE IF Len(s) = 2 /\ s[1] \in 192..223 THEN (s[1] - 192) * 64 + tail(s[2])
        ELSE IF Len(s) = 3 /\ s[1] \in 224..239
        THEN (s[1] - 224) * 4096 + tail(s[2]) * 64 + tail(s[3])
        ELSE IF Len(s) = 4 /\ s[1] \in 240..247
        THEN (s[1] - 240) * 262144 + tail(s[2]) * 4096 + tail(s[3]) * 64 + tail(s[4])
        ELSE -1

\* The least scalar value an n-byte sequence may encode (shorter forms are overlong).
LeastScalar(n) == IF n = 1 THEN 0 ELSE IF n = 2 THEN 128 ELSE IF n = 3 THEN 2048 ELSE 65536

\* s is the UTF-8 encoding of a sequence of Unicode scalar values.
RECURSIVE IsUtf8Text(_)
IsUtf8Text(s) ==
    \/ s = <<>>
    \/ \E n \in 1..4 :
          /\ n <= Len(s)
          /\ LET v == ScalarOf(Take(s, n)) IN
             /\ v >= LeastScalar(n)
             /\ v <= 1114111
             /\ v \notin 55296..57343
          /\ IsUtf8Text(Drop(s, n))

\* The input up to the thread id is 'T' d1 d2 'thread:'.
HaltHeader ==
    /\ Len(input) >= 10
    /\ input[1] = Byte("T")
    /\ IsHexByte(input[2]) /\ IsHexByte(input[3])
    /\ SubSeq(input, 4, 10) = Bytes(<<"t", "h", "r", "e", "a", "d", ":">>)

ParsedThread == thread_id(Drop(input, 10), overflow_checks)

\* The input is 'T' d1 d2 'thread:' thread_id ';' rest.
HaltForm ==
    /\ HaltHeader
    /\ ParsedThread.kind = "Ok"
    /\ Len(ParsedThread.rest) >= 1
    /\ ParsedThread.rest[1] = Byte(";")

HaltRest == Drop(ParsedThread.rest, 1)

\* C9: whenever halt_reason succeeds the input is 'T' d1 d2 'thread:' thread_id
\* ';' rest, the remainder is empty, signal_num is 16*d1 + d2, thread is the
\* parsed thread id and reason is None exactly when rest is empty and Some(rest)
\* otherwise, rest being UTF-8 text; on an input of that form whose rest is not
\* valid UTF-8 it fails with a Utf8 error.
C9_HaltReason ==
    Called =>
        /\ result.kind = "Ok"
              => /\ HaltForm
                 /\ result.rest = <<>>
                 /\ result.value.signal_num = 16 * HexValueOf(input[2]) + HexValueOf(input[3])
                 /\ result.value.thread = ParsedThread.value
                 /\ (result.value.reason = None) <=> (HaltRest = <<>>)
                 /\ HaltRest # <<>> => result.value.reason = Some(HaltRest)
                 /\ IsUtf8Text(HaltRest)
        /\ (HaltForm /\ ~IsUtf8Text(HaltRest))
              => (result.kind = "Error" /\ result.err.kind.tag = "Utf8")

\* A stop reply with a multi-process thread id and a reason that holds a
\* two-byte character was decoded.
C9_Witness ==
    /\ result.kind = "Ok"
    /\ result.value.thread.tag = "MultiProcess"
    /\ result.value.reason # None
    /\ HasByte(result.value.reason[1], 195)
    /\ result.value.signal_num = 241

====
